---- MODULE Spec2Model ----
(***************************************************************************)
(* Memory-mapped register cell (emu/src/bus/regs.rs) and the debugger's    *)
(* trace step (emu/src/dbg.rs) of r64emu.                                  *)
(*                                                                         *)
(* An integer of SIZE bytes is the sequence of its SIZE bytes, least        *)
(* significant first, so that the 64-bit arithmetic of the code keeps its  *)
(* width.  Raw storage is the code's [u8; 8]: 8 bytes in memory order.     *)
(***************************************************************************)
EXTENDS Integers, Sequences, FiniteSets, TLC

(***************************************************************************)
(* Bounds of the model.                                                    *)
(***************************************************************************)
\* bus addresses range over 0 .. U::SIZE - 1 + MaxOver: past the end of the
\* register, so that the address masking addr & (U::SIZE - 1) is exercised
MaxOver == 1
\* the debugger's clock runs from 0 to MaxTime milliseconds
MaxTime == 20
\* half-width bus writes made in a row on a plain register
MaxHalfWrites == 2

(***************************************************************************)
(* Numeric / endian abstraction (memint.rs).                               *)
(***************************************************************************)
\* the MemInt widths u8, u16, u32, u64, in bytes (MemInt::SIZE)
Sizes == {1, 2, 4, 8}

Orders == {"LE", "BE"}

Pow2(n) == 2 ^ n

\* a & b for two bytes
ByteAndTable ==
    [a \in 0..255 |-> [b \in 0..255 |->
        LET bit(x, i) == (x \div Pow2(i)) % 2
        IN  bit(a, 0) * bit(b, 0) + 2 * bit(a, 1) * bit(b, 1)
            + 4 * bit(a, 2) * bit(b, 2) + 8 * bit(a, 3) * bit(b, 3)
            + 16 * bit(a, 4) * bit(b, 4) + 32 * bit(a, 5) * bit(b, 5)
            + 64 * bit(a, 6) * bit(b, 6) + 128 * bit(a, 7) * bit(b, 7)]]

\* U::zero()
Zero(size) == [k \in 1..size |-> 0]

\* all bits set: U::max_value(), and the 0xffff_ffff_ffff_ffff of the
\* unmapped read
AllOnes(size) == [k \in 1..size |-> 255]

\* the integer of `size` bytes cut from the bytes bs, least significant first
FromBytes(bs, size) == SubSeq(bs, 1, size)

\* a & b, a | b, !a on integers of one width
BitAnd(a, b) == [k \in 1..Len(a) |-> ByteAndTable[a[k]][b[k]]]

BitOr(a, b) == [k \in 1..Len(a) |-> a[k] + b[k] - ByteAndTable[a[k]][b[k]]]

BitNot(a) == [k \in 1..Len(a) |-> 255 - a[k]]

\* the k-th byte (1 = least significant) of a, 0 outside a
ByteAt(a, k) == IF k >= 1 /\ k <= Len(a) THEN a[k] ELSE 0

\* a << n at the width of a, for 0 <= n < 8 * Len(a): bits shifted out are lost
Shl(a, n) ==
    LET q == n \div 8
        r == n % 8
    IN  [k \in 1..Len(a) |->
            ((ByteAt(a, k - q) * Pow2(r)) % 256)
            + (ByteAt(a, k - q - 1) \div Pow2(8 - r))]

\* a >> n at the width of a
Shr(a, n) ==
    LET q == n \div 8
        r == n % 8
    IN  [k \in 1..Len(a) |->
            (ByteAt(a, k + q) \div Pow2(r))
            + ((ByteAt(a, k + q + 1) * Pow2(8 - r)) % 256)]

\* MemInt::truncate_from(u64): keep the low `size` bytes
truncate_from(size, val64) == SubSeq(val64, 1, size)

\* Into<u64> / Into<U>: zero-extension to `size` bytes
into(size, v) == [k \in 1..size |-> ByteAt(v, k)]

\* MemInt::endian_read_from::<O>(buf): the integer of `size` bytes stored
\* at the start of the byte slice buf under byte order O
endian_read_from(O, size, buf) ==
    [k \in 1..size |-> IF O = "LE" THEN buf[k] ELSE buf[size + 1 - k]]

\* MemInt::endian_write_to::<O>(buf, val): the slice buf after val, an
\* integer of `size` bytes, is stored at its start under byte order O
endian_write_to(O, size, buf, val) ==
    [j \in 1..Len(buf) |->
        IF j <= size
        THEN (IF O = "LE" THEN val[j] ELSE val[size + 1 - j])
        ELSE buf[j]]

\* ByteOrderCombiner::subint_mask::<U, S>(off): the window of the S-wide
\* access at byte offset off inside the U-wide integer, as (mask, shift)
subint_mask(O, usize, ssize, off) ==
    LET shift == IF O = "LE" THEN off * 8 ELSE (usize - ssize - off) * 8
    IN  <<Shl(into(usize, AllOnes(ssize)), shift), shift>>

(***************************************************************************)
(* Input values.  Each is a 64-bit pattern given by its bytes, least       *)
(* significant first, and cut to the width it is used at.                  *)
(***************************************************************************)
\* 0x1100ffeeddccbbaa and 0x0fedcba912345678: values the owner stores with
\* set() (at 32 bits the 0xddccbbaa and 0x12345678 of the tests)
SetPatterns ==
    { <<\hAA, \hBB, \hCC, \hDD, \hEE, \hFF, \h00, \h11>>,
      <<\h78, \h56, \h34, \h12, \hA9, \hCB, \hED, \h0F>> }

\* 0x0fedcba912345678, 0xabcdef0123456789 and all ones: values written on
\* the bus (at 32 and 16 bits the 0x12345678 and 0x6789 of the tests)
WritePatterns ==
    { <<\h78, \h56, \h34, \h12, \hA9, \hCB, \hED, \h0F>>,
      <<\h89, \h67, \h45, \h23, \h01, \hEF, \hCD, \hAB>>,
      <<\hFF, \hFF, \hFF, \hFF, \hFF, \hFF, \hFF, \hFF>> }

\* 0, 0xff00ff00ff00ff00 (at 32 bits the mask of the tests) and
\* 0xf000ff0ff000ff0f (a mask whose edges fall inside bytes)
MaskPatterns ==
    { <<\h00, \h00, \h00, \h00, \h00, \h00, \h00, \h00>>,
      <<\h00, \hFF, \h00, \hFF, \h00, \hFF, \h00, \hFF>>,
      <<\h0F, \hFF, \h00, \hF0, \h0F, \hFF, \h00, \hF0>> }

SetVals(size) == {FromBytes(p, size) : p \in SetPatterns}
WriteVals(size) == {FromBytes(p, size) : p \in WritePatterns}
Masks(size) == {FromBytes(p, size) : p \in MaskPatterns}

(***************************************************************************)
(* State.                                                                  *)
(***************************************************************************)
VARIABLES
    USIZE,          \* U::SIZE of the register type Reg<O, U>
    ORDER,          \* O, its byte order
    raw,            \* Reg.raw: [u8; 8]
    romask,         \* Reg.romask
    flags,          \* Reg.flags
    wcb,            \* Reg.wcb: whether a write callback is installed
    rcb,            \* Reg.rcb: the read callback installed, or "none"
    wrs,            \* the bus writes made since the last set(), oldest first
    rd,             \* the bus read made since the last set() or bus write
    paused,         \* DebuggerUI.paused
    last_render,    \* DebuggerUI.last_render
    poll_event,     \* the instant given to Debugger::set_poll_event
    tex_screen,     \* DebuggerUI.tex_screen: the frame it holds
    screen,         \* the screen buffer handed to trace()
    now,            \* the clock (Instant::now()), in milliseconds
    traced          \* how the latest call of trace() ended

cfgvars == <<USIZE, ORDER, romask, flags, wcb, rcb>>

regvars == <<USIZE, ORDER, raw, romask, flags, wcb, rcb, wrs, rd>>

dbgvars == <<paused, last_render, poll_event, tex_screen, screen, now, traced>>

vars == <<regvars, dbgvars>>

\* no bus read made yet
NoRead == [S |-> 0]

\* RegFlags (bitflags!) and its Default
RegFlags == SUBSET {"READACCESS", "WRITEACCESS"}

DefaultFlags == {"READACCESS", "WRITEACCESS"}

\* a read callback: |val| val | 0x1 (tests::reg32le_cb), or none
ApplyRcb(f, val) ==
    IF f = "or1" THEN BitOr(val, into(Len(val), <<1>>)) ELSE val

(***************************************************************************)
(* Bus binding layer (bus.rs): handlers and their binding to an address.   *)
(***************************************************************************)
\* addr & mask, for a mask of the form 2^k - 1
AddrAnd(addr, mask) == addr % (mask + 1)

\* unmapped_area_r(): a handler whose every read gives all ones
unmapped_area_r == [kind |-> "Unmapped"]

\* unmapped_area_w(): a handler whose every write is discarded
unmapped_area_w == [kind |-> "Unmapped"]

\* HwIoR::Mem(buf, mask).at::<O, S>(addr).read()
MemIoR_read(buf, mask, ssize, addr) ==
    endian_read_from(ORDER, ssize, SubSeq(buf, AddrAnd(addr, mask) + 1, Len(buf)))

\* HwIoW::Mem(buf, mask).at::<O, S>(addr).write(val): the buffer afterwards
MemIoW_write(buf, mask, ssize, addr, val) ==
    LET off == AddrAnd(addr, mask)
    IN  SubSeq(buf, 1, off)
        \o endian_write_to(ORDER, ssize, SubSeq(buf, off + 1, Len(buf)), val)

(***************************************************************************)
(* Register cell (regs.rs).                                                *)
(***************************************************************************)
\* Reg::get
get == endian_read_from(ORDER, USIZE, raw)

\* Reg::set: the raw storage after set(val)
set(val) == endian_write_to(ORDER, USIZE, raw, val)

\* hw_io_r_func with the read callback left out: the stored value is read
hw_io_r_func_raw(ssize, addr) ==
    LET off == AddrAnd(addr, USIZE - 1)
        shift == subint_mask(ORDER, USIZE, ssize, off)[2]
        val == into(8, get)
    IN  [value |-> into(8, truncate_from(ssize, Shr(val, shift))),
         calls |-> <<get>>]

\* the closure of Reg::hw_io_r::<S>, called with addr: the u64 it returns
\* and the arguments rcb was called with
hw_io_r_func(ssize, addr) ==
    LET off == AddrAnd(addr, USIZE - 1)
        shift == subint_mask(ORDER, USIZE, ssize, off)[2]
        val == into(8, ApplyRcb(rcb, get))
    IN  [value |-> into(8, truncate_from(ssize, Shr(val, shift))),
         calls |-> <<get>>]

\* hw_io_r without the READACCESS test
hw_io_r_noflag(ssize) ==
    IF rcb # "none"
    THEN [kind |-> "Func"]
    ELSE [kind |-> "Mem", mask |-> USIZE - 1]

\* Reg::hw_io_r::<S>: the read handler
hw_io_r(ssize) ==
    IF "READACCESS" \notin flags
    THEN unmapped_area_r
    ELSE IF rcb # "none"
         THEN [kind |-> "Func"]
         ELSE [kind |-> "Mem", mask |-> USIZE - 1]

\* hw_io_w_func with romask left out of the mask
hw_io_w_func_nomask(ssize, addr, val64) ==
    LET off == AddrAnd(addr, USIZE - 1)
        ms == subint_mask(ORDER, USIZE, ssize, off)
        val0 == Shl(truncate_from(USIZE, val64), ms[2])
        old == get
        mask == BitNot(ms[1])
        val == BitOr(BitAnd(val0, BitNot(mask)), BitAnd(old, mask))
    IN  [raw |-> set(val),
         calls |-> IF wcb THEN <<[old |-> old, new |-> val]>> ELSE <<>>]

\* hw_io_w_func with the value left unshifted
hw_io_w_func_noshift(ssize, addr, val64) ==
    LET off == AddrAnd(addr, USIZE - 1)
        ms == subint_mask(ORDER, USIZE, ssize, off)
        val0 == truncate_from(USIZE, val64)
        old == get
        mask == BitOr(BitNot(ms[1]), romask)
        val == BitOr(BitAnd(val0, BitNot(mask)), BitAnd(old, mask))
    IN  [raw |-> set(val),
         calls |-> IF wcb THEN <<[old |-> old, new |-> val]>> ELSE <<>>]

\* hw_io_w_func handing the observer the shifted value instead of the
\* merged one
hw_io_w_func_narrow(ssize, addr, val64) ==
    LET off == AddrAnd(addr, USIZE - 1)
        ms == subint_mask(ORDER, USIZE, ssize, off)
        val0 == Shl(truncate_from(USIZE, val64), ms[2])
        old == get
        mask == BitOr(BitNot(ms[1]), romask)
        val == BitOr(BitAnd(val0, BitNot(mask)), BitAnd(old, mask))
    IN  [raw |-> set(val),
         calls |-> IF wcb THEN <<[old |-> old, new |-> val0]>> ELSE <<>>]

\* hw_io_w_func with the two sides of the merge exchanged
hw_io_w_func_swapped(ssize, addr, val64) ==
    LET off == AddrAnd(addr, USIZE - 1)
        ms == subint_mask(ORDER, USIZE, ssize, off)
        val0 == Shl(truncate_from(USIZE, val64), ms[2])
        old == get
        mask == BitOr(BitNot(ms[1]), romask)
        val == BitOr(BitAnd(val0, mask), BitAnd(old, BitNot(mask)))
    IN  [raw |-> set(val),
         calls |-> IF wcb THEN <<[old |-> old, new |-> val]>> ELSE <<>>]

\* the closure of Reg::hw_io_w::<S>, called with (addr, val64): the raw
\* storage afterwards and the arguments wcb was called with
hw_io_w_func(ssize, addr, val64) ==
    LET off == AddrAnd(addr, USIZE - 1)
        ms == subint_mask(ORDER, USIZE, ssize, off)
        val0 == Shl(truncate_from(USIZE, val64), ms[2])
        old == get
        mask == BitOr(BitNot(ms[1]), romask)
        val == BitOr(BitAnd(val0, BitNot(mask)), BitAnd(old, mask))
    IN  [raw |-> set(val),
         calls |-> IF wcb THEN <<[old |-> old, new |-> val]>> ELSE <<>>]

\* hw_io_w without the WRITEACCESS test
hw_io_w_noflag(ssize) ==
    IF romask = Zero(USIZE) /\ ~wcb
    THEN [kind |-> "Mem", mask |-> USIZE - 1]
    ELSE [kind |-> "Func"]

\* hw_io_w with the WRITEACCESS test negated
hw_io_w_negated(ssize) ==
    IF "WRITEACCESS" \in flags
    THEN unmapped_area_w
    ELSE IF romask = Zero(USIZE) /\ ~wcb
         THEN [kind |-> "Mem", mask |-> USIZE - 1]
         ELSE [kind |-> "Func"]

\* Reg::hw_io_w::<S>: the write handler
hw_io_w(ssize) ==
    IF "WRITEACCESS" \notin flags
    THEN unmapped_area_w
    ELSE IF romask = Zero(USIZE) /\ ~wcb
         THEN [kind |-> "Mem", mask |-> USIZE - 1]
         ELSE [kind |-> "Func"]

\* Reg::read::<S>(addr): the value read and the calls of rcb it made
read(ssize, addr) ==
    LET h == hw_io_r(ssize)
    IN  CASE h.kind = "Unmapped" ->
                [value |-> truncate_from(ssize, AllOnes(8)), calls |-> <<>>]
          [] h.kind = "Mem" ->
                [value |-> MemIoR_read(raw, h.mask, ssize, addr), calls |-> <<>>]
          [] h.kind = "Func" ->
                LET r == hw_io_r_func(ssize, addr)
                IN  [value |-> truncate_from(ssize, r.value), calls |-> r.calls]

\* write binding its handler to address 0 instead of addr
write_at_zero(ssize, addr, val) ==
    LET h == hw_io_w(ssize)
    IN  CASE h.kind = "Unmapped" -> [raw |-> raw, calls |-> <<>>]
          [] h.kind = "Mem" ->
                [raw |-> MemIoW_write(raw, h.mask, ssize, 0, val), calls |-> <<>>]
          [] h.kind = "Func" -> hw_io_w_func(ssize, 0, into(8, val))

\* Reg::write::<S>(addr, val): the raw storage afterwards and the calls of
\* wcb it made
write(ssize, addr, val) ==
    LET h == hw_io_w(ssize)
    IN  CASE h.kind = "Unmapped" -> [raw |-> raw, calls |-> <<>>]
          [] h.kind = "Mem" ->
                [raw |-> MemIoW_write(raw, h.mask, ssize, addr, val), calls |-> <<>>]
          [] h.kind = "Func" -> hw_io_w_func(ssize, addr, into(8, val))

\* the access widths S a register of USIZE bytes accepts (S: Into<U>)
SubSizes == {s \in Sizes : s <= USIZE}

\* the addresses a bus access of ssize bytes is made at
Addrs(ssize) == {a \in 0..(USIZE - 1 + MaxOver) : a % ssize = 0}

\* a register as its owner builds it: Default::default() with the fields
\* the owner names; the raw storage starts zeroed
InitReg ==
    /\ USIZE \in Sizes
    /\ ORDER \in Orders
    /\ raw = [i \in 1..8 |-> 0]
    /\ romask \in Masks(USIZE)
    /\ flags \in RegFlags
    /\ wcb \in BOOLEAN
    /\ rcb \in {"none", "or1"}
    /\ wrs = <<>>
    /\ rd = NoRead

\* Reg::new(): every field at its default
NewReg ==
    /\ USIZE \in Sizes
    /\ ORDER \in Orders
    /\ raw = [i \in 1..8 |-> 0]
    /\ romask = Zero(USIZE)
    /\ flags = DefaultFlags
    /\ wcb = FALSE
    /\ rcb = "none"
    /\ wrs = <<>>
    /\ rd = NoRead

\* r.set(val), called by the owner of the register
Set ==
    /\ \E val \in SetVals(USIZE) : raw' = set(val)
    /\ wrs' = <<>>
    /\ rd' = NoRead
    /\ UNCHANGED <<cfgvars, dbgvars>>

\* r.write::<S>(addr, val)
DoWrite(ssize, addr, val) ==
    LET w == write(ssize, addr, val)
    IN  /\ raw' = w.raw
        /\ wrs' = Append(wrs, [S |-> ssize, addr |-> addr, val |-> val,
                               old |-> get, calls |-> w.calls])
        /\ rd' = NoRead
        /\ UNCHANGED <<cfgvars, dbgvars>>

\* r.read::<S>(addr)
DoRead(ssize, addr) ==
    LET r == read(ssize, addr)
    IN  /\ rd' = [S |-> ssize, addr |-> addr, value |-> r.value, calls |-> r.calls]
        /\ UNCHANGED <<raw, wrs, cfgvars, dbgvars>>

\* the bus writes the register that the owner has set (every bus access is
\* a function of the register's fields and of its arguments) ...
Write ==
    /\ wrs = <<>>
    /\ rd = NoRead
    /\ \E ssize \in SubSizes :
         \E addr \in Addrs(ssize) :
           \E val \in WriteVals(ssize) : DoWrite(ssize, addr, val)

\* ... and then reads it once
Read ==
    /\ rd = NoRead
    /\ \E ssize \in SubSizes :
         \E addr \in Addrs(ssize) : DoRead(ssize, addr)

\* the bus writes the halves of the register, one at a time ...
WriteHalf ==
    /\ USIZE > 1
    /\ Len(wrs) < MaxHalfWrites
    /\ rd = NoRead
    /\ \E addr \in {0, USIZE \div 2} :
         \E val \in WriteVals(USIZE \div 2) : DoWrite(USIZE \div 2, addr, val)

\* ... and then reads the whole register
ReadFull ==
    /\ rd = NoRead
    /\ DoRead(USIZE, 0)

(***************************************************************************)
(* Debugger (dbg.rs).                                                      *)
(***************************************************************************)
\* the refresh period of a paused debugger, in milliseconds
RefreshMs == 16

\* the delay after which the tracer is asked for a Poll event
PollMs == 50

\* the contents a screen buffer takes; 0 is the empty texture
Frames == {0, 1, 2}

\* what DebuggerModel::trace_frame returns: Ok(()) or Err(event), where
\* the event is TraceEvent::Poll() or any other TraceEvent
TraceResults == {"Ok", "Poll", "Other"}

\* DebuggerUI::new
InitDbg ==
    /\ paused = FALSE
    /\ now = 0
    /\ last_render = 0
    /\ poll_event = 0
    /\ tex_screen = 0
    /\ screen = 0
    /\ traced = [ret |-> "none", frame |-> "none"]

\* the process is alive: no call has panicked
Alive == traced.ret # "panic"

\* DebuggerUI::trace, paused: sleep out the refresh period, return false
TracePaused ==
    /\ Alive
    /\ paused
    /\ LET elapsed == now - last_render
       IN  IF RefreshMs - elapsed >= 0
           THEN /\ last_render + RefreshMs <= MaxTime
                /\ now' = now + (RefreshMs - elapsed)
           ELSE now' = now
    /\ traced' = [ret |-> "false", frame |-> "none"]
    /\ UNCHANGED <<paused, last_render, poll_event, tex_screen, screen, regvars>>

\* DebuggerUI::trace, running: set the poll event, then trace_frame
TraceFrame ==
    /\ Alive
    /\ ~paused
    /\ poll_event' = last_render + PollMs
    /\ \E res \in TraceResults :
         CASE res = "Ok" ->
                /\ screen' \in Frames \ {0}
                /\ tex_screen' = screen'
                /\ traced' = [ret |-> "true", frame |-> res]
           [] res = "Poll" ->
                /\ traced' = [ret |-> "false", frame |-> res]
                /\ UNCHANGED <<tex_screen, screen>>
           [] res = "Other" ->
                /\ traced' = [ret |-> "panic", frame |-> res]
                /\ UNCHANGED <<tex_screen, screen>>
    /\ UNCHANGED <<paused, last_render, now, regvars>>

\* DebuggerUI::render: Space toggles paused; the UI is drawn
Render ==
    /\ Alive
    /\ \E space \in BOOLEAN : paused' = IF space THEN ~paused ELSE paused
    /\ last_render' = now
    /\ UNCHANGED <<poll_event, tex_screen, screen, now, traced, regvars>>

\* time passes
Tick ==
    /\ Alive
    /\ now < MaxTime
    /\ now' = now + 1
    /\ UNCHANGED <<paused, last_render, poll_event, tex_screen, screen, traced, regvars>>

(***************************************************************************)
(* Specifications.                                                         *)
(***************************************************************************)
\* a register of any configuration under set(), one bus write and reads
Init == InitReg /\ InitDbg

Next == Set \/ Write \/ Read

Spec == Init /\ [][Next]_vars

\* a plain register (Reg::new()) whose halves the bus writes
InitHalves == NewReg /\ InitDbg

NextHalves == Set \/ WriteHalf \/ ReadFull

SpecHalves == InitHalves /\ [][NextHalves]_vars

\* the debugger's main loop: trace(), render() and the clock
InitTrace == NewReg /\ USIZE = 4 /\ ORDER = "LE" /\ InitDbg

NextTrace == TracePaused \/ TraceFrame \/ Render \/ Tick

SpecTrace == InitTrace /\ [][NextTrace]_vars

(***************************************************************************)
(* Vocabulary of the properties.                                           *)
(***************************************************************************)
\* bit i (0 = least significant) of the integer v
Bit(v, i) == (v[(i \div 8) + 1] \div Pow2(i % 8)) % 2

\* the bit positions of the register
RegBits == 0..(8 * USIZE - 1)

\* the latest bus write
LastWrite == wrs[Len(wrs)]

\* the bit position at which the ssize-wide window at addr starts
WindowShift(ssize, addr) ==
    LET off == addr % USIZE
    IN  IF ORDER = "LE" THEN 8 * off ELSE 8 * (USIZE - ssize - off)

\* bit i of the register lies in the ssize-wide window at addr
InWindow(i, ssize, addr) ==
    /\ i >= WindowShift(ssize, addr)
    /\ i < WindowShift(ssize, addr) + 8 * ssize

\* bit i of the register after the bus write w: the written bit if i is in
\* the window and not read-only, the old bit otherwise
WrittenBit(i, w) ==
    IF InWindow(i, w.S, w.addr) /\ Bit(romask, i) = 0
    THEN Bit(w.val, i - WindowShift(w.S, w.addr))
    ELSE Bit(w.old, i)

\* a register with no mask, default flags and no callbacks
Plain ==
    /\ romask = Zero(USIZE)
    /\ flags = DefaultFlags
    /\ ~wcb
    /\ rcb = "none"

\* a bus write has been made at addr since the last set(); the latest one
HalfWritten(addr) == \E n \in 1..Len(wrs) : wrs[n].addr = addr

LastAt(addr) ==
    wrs[CHOOSE n \in 1..Len(wrs) :
            /\ wrs[n].addr = addr
            /\ \A m \in (n + 1)..Len(wrs) : wrs[m].addr # addr]

\* this step is a bus write, a bus read
WriteStep == Len(wrs') = Len(wrs) + 1

ReadStep == rd = NoRead /\ rd' # NoRead

(***************************************************************************)
(* Properties.                                                             *)
(***************************************************************************)
\* C1: after every bus write, of any width, offset and value, observed or
\* not, the bits of get() set in read_only_mask are what they were before it.
C1_ReadOnlyBitsKept ==
    wrs # <<>> =>
        \A i \in RegBits : Bit(romask, i) = 1 => Bit(get, i) = Bit(LastWrite.old, i)

\* a write that is let through, whose window holds read-only bits that the
\* written value would have changed
C1_Witness ==
    /\ wrs # <<>>
    /\ "WRITEACCESS" \in flags
    /\ LastWrite.S < USIZE
    /\ get # LastWrite.old
    /\ \E i \in RegBits :
         /\ Bit(romask, i) = 1
         /\ InWindow(i, LastWrite.S, LastWrite.addr)
         /\ Bit(LastWrite.val, i - WindowShift(LastWrite.S, LastWrite.addr))
              # Bit(LastWrite.old, i)

\* C2: where the direct-memory handler is used (no mask and no observer on
\* a write, no transform on a read), the raw storage after the write and
\* the value read are those of the general path, which computes
\* (mask, shift) and rebuilds the full-width value.
C2_FastPathIsGeneralPath ==
    [][/\ (WriteStep /\ hw_io_w(LastWrite'.S).kind = "Mem") =>
            raw' = hw_io_w_func(LastWrite'.S, LastWrite'.addr,
                                into(8, LastWrite'.val)).raw
       /\ (ReadStep /\ hw_io_r(rd'.S).kind = "Mem") =>
            rd'.value = truncate_from(rd'.S, hw_io_r_func(rd'.S, rd'.addr).value)
      ]_vars

\* a big-endian plain register written below its width off offset 0 by the
\* fast path, then read below its width
C2_Witness ==
    /\ Plain
    /\ ORDER = "BE"
    /\ wrs # <<>>
    /\ LastWrite.S < USIZE
    /\ LastWrite.addr % USIZE # 0
    /\ get # LastWrite.old
    /\ rd # NoRead
    /\ rd.S < USIZE
    /\ rd.value # AllOnes(rd.S)

\* C3: on a register whose read access is off, every bus read returns all
\* ones at the width read and calls no read_transform.
C3_ReadDisabledAllOnes ==
    ("READACCESS" \notin flags /\ rd # NoRead) =>
        /\ rd.value = AllOnes(rd.S)
        /\ rd.calls = <<>>

\* a read-disabled register with a transform, set and written to, read
\* below its width while it stores something other than all ones
C3_Witness ==
    /\ "READACCESS" \notin flags
    /\ rcb # "none"
    /\ wrs # <<>>
    /\ get # LastWrite.old
    /\ rd # NoRead
    /\ rd.S < USIZE
    /\ get # AllOnes(USIZE)

\* C4: on a register whose write access is off, a bus write leaves get()
\* unchanged and calls no write_observer; only set() changes what is stored.
C4_WriteDisabledNoEffect ==
    []["WRITEACCESS" \notin flags =>
            /\ WriteStep => (get' = get /\ LastWrite'.calls = <<>>)
            /\ raw' # raw => (~WriteStep /\ ~ReadStep)
      ]_vars

\* a write-disabled register with an observer and a mask, written at full
\* width with a value it does not hold
C4_Witness ==
    /\ "WRITEACCESS" \notin flags
    /\ wcb
    /\ romask # Zero(USIZE)
    /\ wrs # <<>>
    /\ LastWrite.S = USIZE
    /\ LastWrite.val # get
    /\ get # Zero(USIZE)

\* C5: on a write-enabled register with an observer, a bus write calls the
\* observer exactly once, with the full-width get() of before the write and
\* the full-width get() of after it.
C5_ObserverGetsFullValues ==
    ("WRITEACCESS" \in flags /\ wcb /\ wrs # <<>>) =>
        LastWrite.calls = <<[old |-> LastWrite.old, new |-> get]>>

\* an observed write narrower than the register, on a register with
\* read-only bits, that changes the stored value
C5_Witness ==
    /\ "WRITEACCESS" \in flags
    /\ wcb
    /\ romask # Zero(USIZE)
    /\ wrs # <<>>
    /\ LastWrite.S < USIZE
    /\ get # LastWrite.old
    /\ into(USIZE, LastWrite.val) # get

\* C6: on a plain register, once both halves have been written (in either
\* order), the full-width read is the two halves side by side: the half
\* written at offset 0 is the low half if little-endian, the high half if
\* big-endian.  So a 32-bit register holding 0x12345678 holds 0x12346789
\* (little-endian) or 0x67895678 (big-endian) after write<u16>(0, 0x6789).
C6_HalvesCompose ==
    /\ (HalfWritten(0) /\ HalfWritten(USIZE \div 2) /\ rd # NoRead) =>
            LET at0 == LastAt(0).val
                atH == LastAt(USIZE \div 2).val
            IN  rd.value = IF ORDER = "LE" THEN at0 \o atH ELSE atH \o at0
    /\ (/\ USIZE = 4
        /\ Len(wrs) = 1
        /\ wrs[1].old = <<\h78, \h56, \h34, \h12>>
        /\ wrs[1].addr = 0
        /\ wrs[1].val = <<\h89, \h67>>) =>
            get = IF ORDER = "LE" THEN <<\h89, \h67, \h34, \h12>>
                                  ELSE <<\h78, \h56, \h89, \h67>>

\* a big-endian register whose high-address half was written first, then
\* its offset-0 half with another value, then read
C6_Witness ==
    /\ ORDER = "BE"
    /\ Len(wrs) = 2
    /\ wrs[1].addr # 0
    /\ wrs[2].addr = 0
    /\ wrs[1].val # wrs[2].val
    /\ rd # NoRead

\* C7: on a plain register, write<W>(0, v) followed by read<W>(0) reads v.
C7_RoundTrip ==
    (/\ Plain
     /\ wrs # <<>>
     /\ LastWrite.S = USIZE
     /\ LastWrite.addr = 0
     /\ rd # NoRead
     /\ rd.S = USIZE
     /\ rd.addr = 0) => rd.value = LastWrite.val

\* a full-width write of a value the register did not hold, read back
C7_Witness ==
    /\ Plain
    /\ wrs # <<>>
    /\ LastWrite.S = USIZE
    /\ LastWrite.addr = 0
    /\ LastWrite.old # LastWrite.val
    /\ LastWrite.old # Zero(USIZE)
    /\ rd # NoRead
    /\ rd.S = USIZE
    /\ rd.addr = 0

\* C8: every call of DebuggerUI::trace returns a boolean, true exactly when
\* trace_frame returned Ok during the call.
C8_TraceReturnsBool ==
    traced.ret # "none" =>
        /\ traced.ret \in {"true", "false"}
        /\ traced.ret = "true" <=> traced.frame = "Ok"

\* C9: after a bus write on a write-enabled register, each bit of the
\* stored value that lies in the written window and is not read-only is the
\* bit of the written value, and every other bit is what it was.
C9_WriteMergesWindow ==
    ("WRITEACCESS" \in flags /\ wrs # <<>>) =>
        \A i \in RegBits : Bit(get, i) = WrittenBit(i, LastWrite)

\* a big-endian masked register written below its width off offset 0, with
\* bits taken from the value and read-only bits kept inside the window
C9_Witness ==
    /\ "WRITEACCESS" \in flags
    /\ ORDER = "BE"
    /\ wrs # <<>>
    /\ LastWrite.S < USIZE
    /\ LastWrite.addr % USIZE # 0
    /\ \E i \in RegBits :
         /\ InWindow(i, LastWrite.S, LastWrite.addr)
         /\ Bit(romask, i) = 0
         /\ Bit(get, i) # Bit(LastWrite.old, i)
    /\ \E i \in RegBits :
         /\ InWindow(i, LastWrite.S, LastWrite.addr)
         /\ Bit(romask, i) = 1
         /\ Bit(get, i) # Bit(LastWrite.val, i - WindowShift(LastWrite.S, LastWrite.addr))

\* C10: on a read-enabled register a bus read returns the window of the
\* transformed get() (of get() itself without a transform) and leaves the
\* raw storage alone; a bus write on a register with a transform stores the
\* written bits, untransformed.
C10_ReadTransformsWindow ==
    [][/\ (ReadStep /\ "READACCESS" \in flags) =>
            /\ raw' = raw
            /\ \A j \in 0..(8 * rd'.S - 1) :
                 Bit(rd'.value, j)
                   = Bit(ApplyRcb(rcb, get), WindowShift(rd'.S, rd'.addr) + j)
       /\ (WriteStep /\ "WRITEACCESS" \in flags /\ rcb # "none") =>
            \A i \in RegBits : Bit(get', i) = WrittenBit(i, LastWrite')
      ]_vars

\* a register with a transform, written, whose lowest bit is stored clear
\* and is read set through a narrow read of the lowest window
C10_Witness ==
    /\ "READACCESS" \in flags
    /\ "WRITEACCESS" \in flags
    /\ rcb = "or1"
    /\ wrs # <<>>
    /\ get # LastWrite.old
    /\ Bit(get, 0) = 0
    /\ rd # NoRead
    /\ rd.S < USIZE
    /\ WindowShift(rd.S, rd.addr) = 0
    /\ Bit(rd.value, 0) = 1

====
